---- MODULE Spec2Model ----
(***************************************************************************)
(* Model of connectwise-gpt-triage-script.py: the ticket triage pipeline   *)
(* fetchNewTickets -> getTriageOutput -> postTicketNote driven by          *)
(* processTickets, with the ticketing API and the model service as         *)
(* nondeterministic external collaborators.                                *)
(*                                                                         *)
(* Python dicts are functions whose DOMAIN is the set of keys present.     *)
(* Text is a sequence of tokens; the token " " is whitespace, so that      *)
(* " ".join and str.strip are computed rather than assumed.                *)
(***************************************************************************)
EXTENDS Integers, Sequences, FiniteSets, TLC

\* ------------------------------------------------------------------ bounds
MaxTickets == 2
MaxNotes == 2
MaxRuns == 2

\* ----------------------------------------------------------- dict helpers
EmptyDict == <<>>

\* dict.get(key, default)
Get(d, k, default) == IF k \in DOMAIN d THEN d[k] ELSE default

\* -------------------------------------------------------------- text
WS == " "

RECURSIVE LStrip(_)
LStrip(s) == IF s # <<>> /\ Head(s) = WS THEN LStrip(Tail(s)) ELSE s

RECURSIVE RStrip(_)
RStrip(s) ==
    IF s # <<>> /\ s[Len(s)] = WS THEN RStrip(SubSeq(s, 1, Len(s) - 1)) ELSE s

\* str.strip()
Strip(s) == RStrip(LStrip(s))

\* "".join(texts): the separator left out
RECURSIVE Join_NoSeparator(_)
Join_NoSeparator(texts) ==
    IF texts = <<>> THEN <<>> ELSE texts[1] \o Join_NoSeparator(Tail(texts))

\* " ".join(texts)
RECURSIVE Join(_)
Join(texts) ==
    IF texts = <<>> THEN <<>>
    ELSE IF Len(texts) = 1 THEN texts[1]
    ELSE texts[1] \o <<WS>> \o Join(Tail(texts))

\* ------------------------------------------------- fixed strings of the code
DescriptionNotAvailable == <<"Description not available">>
NoNotesAvailable == <<"No notes available">>
ErrorFetchingNotes == <<"Error fetching notes">>
NoNotesUrlAvailable == <<"No notes URL available">>
MissingDataSentinel == <<"Triage failed: Missing required ticket data.">>
GptErrorSentinel == <<"Triage failed: GPT processing error.">>
UnknownId == "Unknown ID"
NoSummaryAvailable == <<"No summary available">>
NoDescriptionAvailable == <<"No description available">>
UnknownCompany == <<"Unknown Company">>
UnknownPriority == <<"Unknown">>

\* ------------------------------------------- the ticketing API's answers
TicketIds == {"t1", "t2", "t3"}
IdAt(p) == IF p = 1 THEN "t1" ELSE IF p = 2 THEN "t2" ELSE "t3"

\* line 35
TIME_WINDOW_MINUTES == 5

\* the shapes a ticket record of the ticketing system can have: which fields
\* it carries, how long ago it was created, whether it has an owner
Shapes == {"full", "nodesc", "noinfo", "nohref", "noid", "nosummary", "stale",
           "owned"}

InfoOf(shape) ==
    IF shape = "nohref" THEN EmptyDict ELSE [notes_href |-> "href"]

\* the ticket object at position p of the response
RawTicket(p, shape) ==
    LET all == [id |-> IdAt(p), summary |-> <<"sum", IdAt(p)>>,
                description |-> <<"desc", IdAt(p)>>, _info |-> InfoOf(shape),
                status |-> "New", board |-> "Service",
                owner |-> IF shape = "owned" THEN "someone" ELSE "null",
                contact |-> "Thegen Jackson",
                \* minutes between the ticket's creation and the query
                age |-> IF shape = "stale" THEN 7 ELSE 2]
        attrs == {"status", "board", "owner", "contact", "age"}
        keys == CASE shape = "full" -> {"id", "summary", "description", "_info"}
                  [] shape = "nodesc" -> {"id", "summary"}
                  [] shape = "noinfo" -> {"id", "summary", "description"}
                  [] shape = "nohref" -> {"id", "summary", "description", "_info"}
                  [] shape = "noid" -> {"summary", "description", "_info"}
                  [] shape = "nosummary" -> {"id", "description", "_info"}
                  [] shape = "stale" -> {"id", "summary", "description"}
                  [] shape = "owned" -> {"id", "summary", "description"}
    IN [k \in keys \cup attrs |-> all[k]]

\* line 60: the clauses of the conditions string the query sends; the cutoff
\* of lines 52-57 is computed and logged (line 87) but is not among them
Conditions == {"status", "board", "owner", "contact"}

\* the ticketing API's evaluation of one clause on a ticket
Satisfies(t, clause) ==
    CASE clause = "status" -> t.status = "New"
      [] clause = "board" -> t.board = "Service"
      [] clause = "owner" -> t.owner = "null"
      [] clause = "contact" -> t.contact = "Thegen Jackson"

\* the API returns the tickets that satisfy every clause it was sent
Matches(t) == \A c \in Conditions : Satisfies(t, c)

\* lines 52-57: the ticket was created at or after now - TIME_WINDOW_MINUTES
CreatedSinceCutoff(t) == t.age <= TIME_WINDOW_MINUTES

\* every JSON array of at most MaxTickets ticket objects the API can return
TicketLists ==
    UNION {{ts \in {[p \in 1..n |-> RawTicket(p, sh[p])] : sh \in [1..n -> Shapes]} :
               \A p \in 1..n : Matches(ts[p])} :
           n \in 0..MaxTickets}

\* answers to GET .../service/tickets?conditions=... : the request fails at
\* transport level, or a response arrives with a status and a body that is a
\* JSON array of tickets, a JSON object (an error document) or not JSON.
\* 300 stands for the statuses that are neither 200 nor 4xx/5xx and that
\* requests does not follow as a redirect.
NoAnswer == [kind |-> "none", status |-> 0, json |-> "invalid", items |-> <<>>]

QueryAnswers ==
    {[kind |-> "transport", status |-> 0, json |-> "invalid", items |-> <<>>]}
    \cup {[kind |-> "response", status |-> st, json |-> "list", items |-> ts] :
            st \in {200, 300, 404, 500}, ts \in TicketLists}
    \cup {[kind |-> "response", status |-> st, json |-> j, items |-> <<>>] :
            st \in {200, 300, 404, 500}, j \in {"object", "invalid"}}

\* the note object at position q of a notes response: its text is present
\* and non-empty, present and empty, or the field is missing
NoteShapes == {"text", "empty", "notext"}

NoteToken(q) == IF q = 1 THEN "n1" ELSE IF q = 2 THEN "n2" ELSE "n3"

RawNote(q, shape) ==
    CASE shape = "text" -> [text |-> <<NoteToken(q)>>]
      [] shape = "empty" -> [text |-> <<>>]
      [] shape = "notext" -> EmptyDict

NoteLists ==
    UNION {{[q \in 1..n |-> RawNote(q, sh[q])] : sh \in [1..n -> NoteShapes]} :
           n \in 0..MaxNotes}

\* answers to GET <notes_href>
NotesAnswers ==
    {[kind |-> "transport", status |-> 0, json |-> "invalid", items |-> <<>>]}
    \cup {[kind |-> "response", status |-> 200, json |-> "list", items |-> ns] :
            ns \in NoteLists}
    \cup {[kind |-> "response", status |-> 200, json |-> "invalid", items |-> <<>>],
          [kind |-> "response", status |-> 404, json |-> "object", items |-> <<>>]}

\* answers of the model service: the call raises, or a completion arrives
\* with no choice, with a null content, or with a content string
Contents == {<<"analysis">>, <<WS, "analysis", WS>>, <<>>}

ModelAnswers ==
    {[kind |-> k, content |-> <<>>] : k \in {"error", "nochoices", "nullcontent"}}
    \cup {[kind |-> "content", content |-> c] : c \in Contents}

\* answers to POST .../service/tickets/{id}/notes
PostAnswers ==
    {[kind |-> "transport", status |-> 0],
     [kind |-> "response", status |-> 201],
     [kind |-> "response", status |-> 500]}

\* Response.raise_for_status(): HTTPError for 4xx and 5xx only
RaisesForStatus(status) == status >= 400 /\ status < 600

\* ------------------------------------------------------- pure parts of code

\* lines 103-104: the description built from a successful notes read
NotesDescription(notes) ==
    LET note_texts == [q \in 1..Len(notes) |-> notes[q]["text"]]
    IN IF note_texts # <<>> THEN Join(note_texts) ELSE NoNotesAvailable

\* line 95: the local `description`; nothing reads it afterwards
Description(ticket) == Get(ticket, "description", DescriptionNotAvailable)

\* line 98: ticket['_info'].get('notes_href') if '_info' in ticket else None
NotesUrl(ticket) ==
    IF "_info" \in DOMAIN ticket THEN Get(ticket["_info"], "notes_href", "") ELSE ""

\* lines 111-115: the record fetchNewTickets builds for a ticket
TicketData(ticket_id, summary, full_description) ==
    ("Ticket ID" :> ticket_id) @@ ("Summary" :> summary)
        @@ ("Description" :> full_description)

\* lines 165-185: the values interpolated into the user prompt
UserPrompt(ticket) ==
    [Title |-> Get(ticket, "summary", NoSummaryAvailable),
     Client |-> Get(Get(ticket, "Company", EmptyDict), "Name", UnknownCompany),
     Issue |-> Get(ticket, "Description", NoDescriptionAvailable),
     Steps |-> <<"None documented">>,
     Impact |-> <<"Unclear from ticket">>,
     Priority |-> Get(Get(ticket, "Priority", EmptyDict), "Name", UnknownPriority),
     TicketID |-> Get(ticket, "id", UnknownId)]

\* a null content taken for an empty string instead of raising
TriageResult_NullAsEmpty(answer) ==
    IF answer.kind \in {"content", "nullcontent"}
        THEN Strip(answer.content) ELSE GptErrorSentinel

\* lines 187-198: what getTriageOutput returns for an answer of the model
\* service; .get never raises KeyError, so only the second handler is met
TriageResult(answer) ==
    IF answer.kind = "content" THEN Strip(answer.content) ELSE GptErrorSentinel

\* a payload that marks the note as a resolution note
NotePayload_Resolution(note_text) ==
    [text |-> note_text, detailDescriptionFlag |-> FALSE,
     internalAnalysisFlag |-> TRUE, resolutionFlag |-> TRUE]

\* lines 207-212: the body of the note-creation request
NotePayload(note_text) ==
    [text |-> note_text, detailDescriptionFlag |-> FALSE,
     internalAnalysisFlag |-> TRUE, resolutionFlag |-> FALSE]

\* records handed to getTriageOutput when it is called on its own: a complete
\* ConnectWise-style record and the same record with one field missing
CompleteTicket ==
    [id |-> "t1", summary |-> <<"sum", "t1">>, Description |-> <<"desc", "t1">>,
     Company |-> [Name |-> <<"Acme">>], Priority |-> [Name |-> <<"High">>]]

AnalyzerTickets ==
    {[k \in (DOMAIN CompleteTicket) \ D |-> CompleteTicket[k]] :
        D \in {{}, {"summary"}, {"Priority"}, {"Company"}}}

\* ------------------------------------------------------------------ state
VARIABLES
    pc,                 \* position of the running call
    entry,              \* the function the caller invoked: "main" (lines 234-237),
                        \* "getTriageOutput" or "postTicketNote"
    runs,               \* number of calls started so far
    query,              \* fetchNewTickets: the answer to the ticket query
    idx,                \* fetchNewTickets: position of its for loop
    tickets_with_notes, \* fetchNewTickets: the list it is building
    fetchExit,          \* fetchNewTickets: "ok" or the except clause that returned
    tickets,            \* processTickets: the list fetchNewTickets returned
    i,                  \* processTickets: position of its for loop
    ticket,             \* the record handed to getTriageOutput
    triage_output,      \* the value getTriageOutput returned
    post_args,          \* the arguments of postTicketNote
    exc,                \* the exception that escaped to the entry point
    queries,            \* ticket queries sent in this call
    notesLog,           \* notes reads sent in this call, with their answers
    modelCalls,         \* model-service calls of this call, with their answers
    noteRequests,       \* note-creation requests of this call, with answers
    trace,              \* all external requests of this call, in order
    store,              \* notes the ticketing system holds, per ticket
    matching,           \* the tickets of the ticketing system that satisfy the
                        \* query's conditions; the same for every call
    cleanRuns           \* earlier runs of the script in which every external
                        \* call succeeded

vars == <<pc, entry, runs, query, idx, tickets_with_notes, fetchExit, tickets, i,
          ticket, triage_output, post_args, exc, queries, notesLog, modelCalls,
          noteRequests, trace, store, matching, cleanRuns>>

locals == <<query, idx, tickets_with_notes, fetchExit, tickets, i, ticket,
            triage_output, post_args, exc>>

logs == <<queries, notesLog, modelCalls, noteRequests, trace>>

NoText == <<>>
NoArgs == [ticket_id |-> "", note_text |-> NoText]

Init ==
    /\ pc = "idle"
    /\ entry = "none"
    /\ runs = 0
    /\ query = NoAnswer
    /\ idx = 1
    /\ tickets_with_notes = <<>>
    /\ fetchExit = "none"
    /\ tickets = <<>>
    /\ i = 1
    /\ ticket = EmptyDict
    /\ triage_output = NoText
    /\ post_args = NoArgs
    /\ exc = "none"
    /\ queries = 0
    /\ notesLog = <<>>
    /\ modelCalls = <<>>
    /\ noteRequests = <<>>
    /\ trace = <<>>
    /\ store = [t \in TicketIds |-> 0]
    /\ matching \in TicketLists
    /\ cleanRuns = 0

Ended == pc \in {"idle", "completed", "crashed", "returned"}

\* the ticketing system keeps the note when it answers with a success status
Created(a) == a.kind = "response" /\ ~ RaisesForStatus(a.status)

\* a run of the script has ended and every external call it made succeeded,
\* the notes reads with notes that all carry a text
CleanRun ==
    /\ entry = "main"
    /\ pc \in {"completed", "crashed"}
    /\ query.kind = "response" /\ query.status = 200 /\ query.json = "list"
    /\ \A n \in 1..Len(notesLog) :
          /\ notesLog[n].answer.kind = "response"
          /\ notesLog[n].answer.status = 200
          /\ notesLog[n].answer.json = "list"
          /\ \A q \in 1..Len(notesLog[n].answer.items) :
                "text" \in DOMAIN notesLog[n].answer.items[q]
    /\ \A k \in 1..Len(modelCalls) : modelCalls[k].answer.kind = "content"
    /\ \A r \in 1..Len(noteRequests) : Created(noteRequests[r].answer)

\* a fresh call: nothing of the previous call survives except the ticketing
\* system's own notes
Fresh(e, p) ==
    /\ Ended
    /\ runs < MaxRuns
    /\ runs' = runs + 1
    /\ entry' = e
    /\ pc' = p
    /\ query' = NoAnswer
    /\ idx' = 1
    /\ tickets_with_notes' = <<>>
    /\ fetchExit' = "none"
    /\ tickets' = <<>>
    /\ i' = 1
    /\ triage_output' = NoText
    /\ exc' = "none"
    /\ queries' = 0
    /\ notesLog' = <<>>
    /\ modelCalls' = <<>>
    /\ noteRequests' = <<>>
    /\ trace' = <<>>
    /\ cleanRuns' = IF CleanRun THEN cleanRuns + 1 ELSE cleanRuns
    /\ UNCHANGED <<store, matching>>

\* lines 234-236: the script is run; processTickets calls fetchNewTickets
StartMain ==
    /\ Fresh("main", "fetch_request")
    /\ ticket' = EmptyDict
    /\ post_args' = NoArgs

\* getTriageOutput(t) called on its own
StartAnalyze ==
    \E t \in AnalyzerTickets :
        /\ Fresh("getTriageOutput", "analyze")
        /\ ticket' = t
        /\ post_args' = NoArgs

\* postTicketNote(id, text) called on its own
StartPost ==
    \E id \in {"t1"}, text \in {<<"analysis">>, GptErrorSentinel} :
        /\ Fresh("postTicketNote", "post")
        /\ ticket' = EmptyDict
        /\ post_args' = [ticket_id |-> id, note_text |-> text]

\* ------------------------------------------------------- fetchNewTickets

\* an except clause that returns the records built before the error
FetchFails_Partial(clause) ==
    /\ fetchExit' = clause
    /\ tickets' = tickets_with_notes
    /\ i' = 1
    /\ pc' = "loop"

\* lines 122-130: an except clause of fetchNewTickets returns []; the list
\* built so far is dropped and processTickets goes on with the empty list
FetchFails(clause) ==
    /\ fetchExit' = clause
    /\ tickets' = <<>>
    /\ i' = 1
    /\ pc' = "loop"

\* lines 72-90: the ticket query and the parse of its answer
FetchRequest ==
    /\ pc = "fetch_request"
    /\ \E a \in QueryAnswers :
        \* a JSON array in the answer is the list of matching tickets
        /\ a.json = "list" => a.items = matching
        /\ query' = a
        /\ queries' = queries + 1
        /\ trace' = Append(trace, [op |-> "query", ticket |-> "-"])
        /\ IF a.kind = "transport" THEN
               \* requests.get raises a RequestException
               FetchFails("RequestException") /\ UNCHANGED idx
           ELSE IF RaisesForStatus(a.status) THEN
               \* line 83: HTTPError, a RequestException
               FetchFails("RequestException") /\ UNCHANGED idx
           ELSE IF a.json = "invalid" THEN
               \* line 86: requests' JSONDecodeError, a RequestException
               FetchFails("RequestException") /\ UNCHANGED idx
           ELSE IF a.json = "object" THEN
               \* lines 92-93: iterating a JSON object yields its keys, and
               \* indexing a str with 'id' raises TypeError
               FetchFails("Exception") /\ UNCHANGED idx
           ELSE
               /\ idx' = 1
               /\ pc' = "fetch_loop"
               /\ UNCHANGED <<fetchExit, tickets, i>>
    /\ tickets_with_notes' = <<>>
    /\ UNCHANGED <<matching, cleanRuns>>
    /\ UNCHANGED <<entry, runs, ticket, triage_output, post_args, exc, notesLog,
                   modelCalls, noteRequests, store>>

\* lines 111-118: the enriched record is appended and the loop goes on
Enriched(raw, full_description) ==
    /\ tickets_with_notes' =
           Append(tickets_with_notes,
                  TicketData(raw["id"], raw["summary"], full_description))
    /\ idx' = idx + 1
    /\ UNCHANGED <<pc, fetchExit, tickets, i>>

\* lines 92-118: one iteration of the enrichment loop
FetchTicket ==
    /\ pc = "fetch_loop"
    /\ idx <= Len(query.items)
    /\ LET raw == query.items[idx] IN
        IF ~ ({"id", "summary"} \subseteq DOMAIN raw) THEN
            \* lines 93-94: KeyError, caught at line 127
            /\ FetchFails("Exception")
            /\ UNCHANGED <<idx, tickets_with_notes, notesLog, trace>>
        ELSE IF NotesUrl(raw) = "" THEN
            \* line 108
            /\ Enriched(raw, NoNotesUrlAvailable)
            /\ UNCHANGED <<notesLog, trace>>
        ELSE
            \E a \in NotesAnswers :
                /\ notesLog' = Append(notesLog, [ticket |-> raw["id"], answer |-> a])
                /\ trace' = Append(trace, [op |-> "notes", ticket |-> raw["id"]])
                /\ IF a.kind = "transport" THEN
                       \* line 100 raises a RequestException, caught at line 122
                       FetchFails("RequestException")
                           /\ UNCHANGED <<idx, tickets_with_notes>>
                   ELSE IF a.status # 200 THEN
                       \* line 106
                       Enriched(raw, ErrorFetchingNotes)
                   ELSE IF a.json = "invalid" THEN
                       \* line 102: JSONDecodeError
                       FetchFails("RequestException")
                           /\ UNCHANGED <<idx, tickets_with_notes>>
                   ELSE IF \E q \in 1..Len(a.items) : "text" \notin DOMAIN a.items[q] THEN
                       \* line 103: KeyError, caught at line 127
                       FetchFails("Exception")
                           /\ UNCHANGED <<idx, tickets_with_notes>>
                   ELSE
                       Enriched(raw, NotesDescription(a.items))
    /\ UNCHANGED <<matching, cleanRuns>>
    /\ UNCHANGED <<entry, runs, query, ticket, triage_output, post_args, exc,
                   queries, modelCalls, noteRequests, store>>

\* line 120: return tickets_with_notes
FetchReturn ==
    /\ pc = "fetch_loop"
    /\ idx > Len(query.items)
    /\ fetchExit' = "ok"
    /\ tickets' = tickets_with_notes
    /\ i' = 1
    /\ pc' = "loop"
    /\ UNCHANGED <<matching, cleanRuns>>
    /\ UNCHANGED <<entry, runs, query, idx, tickets_with_notes, ticket,
                   triage_output, post_args, exc, store>>
    /\ UNCHANGED logs

\* -------------------------------------------------------- processTickets

\* a loop that runs its body once before it tests for the end of the list
LoopNext_BodyFirst(ts, k) ==
    IF k <= Len(ts) \/ k = 1 THEN "analyze" ELSE "completed"

\* line 226: the for loop takes the next ticket, or processTickets returns and
\* line 237 logs 'Triage Process Completed'
LoopNext(ts, k) == IF k <= Len(ts) THEN "analyze" ELSE "completed"

LoopHead ==
    /\ pc = "loop"
    /\ pc' = LoopNext(tickets, i)
    /\ ticket' = IF i <= Len(tickets) THEN tickets[i] ELSE ticket
    /\ UNCHANGED <<matching, cleanRuns>>
    /\ UNCHANGED <<entry, runs, query, idx, tickets_with_notes, fetchExit,
                   tickets, i, triage_output, post_args, exc, store>>
    /\ UNCHANGED logs

\* the ticket a model call or a trace entry is about
IdOf(t) == Get(t, "Ticket ID", Get(t, "id", "-"))

\* lines 133-198 (called at line 228): getTriageOutput(ticket)
Analyze ==
    /\ pc = "analyze"
    /\ \E a \in ModelAnswers :
        /\ modelCalls' = Append(modelCalls,
               [ticket |-> ticket, prompt |-> UserPrompt(ticket), answer |-> a])
        /\ trace' = Append(trace, [op |-> "model", ticket |-> IdOf(ticket)])
        /\ triage_output' = TriageResult(a)
    /\ pc' = IF entry = "main" THEN "post_arg" ELSE "returned"
    /\ UNCHANGED <<matching, cleanRuns>>
    /\ UNCHANGED <<entry, runs, query, idx, tickets_with_notes, fetchExit,
                   tickets, i, ticket, post_args, exc, queries, notesLog,
                   noteRequests, store>>

\* line 231: the arguments of postTicketNote are evaluated; ticket['id']
\* raises KeyError when the record has no 'id' key, and nothing catches it
PostArg ==
    /\ pc = "post_arg"
    /\ IF "id" \in DOMAIN ticket THEN
           /\ post_args' = [ticket_id |-> ticket["id"], note_text |-> triage_output]
           /\ pc' = "post"
           /\ UNCHANGED exc
       ELSE
           /\ exc' = "KeyError"
           /\ pc' = "crashed"
           /\ UNCHANGED post_args
    /\ UNCHANGED <<matching, cleanRuns>>
    /\ UNCHANGED <<entry, runs, query, idx, tickets_with_notes, fetchExit,
                   tickets, i, ticket, triage_output, store>>
    /\ UNCHANGED logs

\* a postTicketNote without its except clause: a failed request propagates
AfterPost_Propagates(e, a) ==
    IF a.kind = "transport" \/ RaisesForStatus(a.status) THEN "crashed"
    ELSE IF e = "main" THEN "loop" ELSE "returned"

\* lines 215-221: whatever the request's outcome, the exception (if any) is
\* caught at line 220 and postTicketNote returns to its caller
AfterPost(e, a) == IF e = "main" THEN "loop" ELSE "returned"

\* lines 202-221: postTicketNote(ticket_id, note_text); every exception is
\* logged and swallowed
Post ==
    /\ pc = "post"
    /\ \E a \in PostAnswers :
        /\ noteRequests' = Append(noteRequests,
               [ticket_id |-> post_args.ticket_id,
                payload |-> NotePayload(post_args.note_text), answer |-> a])
        /\ trace' = Append(trace, [op |-> "post", ticket |-> post_args.ticket_id])
        /\ store' = IF Created(a)
                       THEN [store EXCEPT ![post_args.ticket_id] = @ + 1]
                       ELSE store
        /\ pc' = AfterPost(entry, a)
    /\ i' = IF entry = "main" THEN i + 1 ELSE i
    /\ UNCHANGED <<matching, cleanRuns>>
    /\ UNCHANGED <<entry, runs, query, idx, tickets_with_notes, fetchExit,
                   tickets, ticket, triage_output, post_args, exc, queries,
                   notesLog, modelCalls>>

Next ==
    \/ StartMain
    \/ StartAnalyze
    \/ StartPost
    \/ FetchRequest
    \/ FetchTicket
    \/ FetchReturn
    \/ LoopHead
    \/ Analyze
    \/ PostArg
    \/ Post

Spec == Init /\ [][Next]_vars

\* ================================================================ claims

\* a run of the script has ended, normally or with an escaped exception
RunEnded == entry = "main" /\ pc \in {"completed", "crashed"}

\* fetchNewTickets has returned to processTickets
FetchReturned == entry = "main" /\ fetchExit # "none"

\* the ticket query was answered with a status that passes raise_for_status
\* and a JSON array
QueryGaveList ==
    query.kind = "response" /\ ~ RaisesForStatus(query.status) /\ query.json = "list"

\* C1: when a run has ended, every ticket the fetch stage returned has had
\* both an analysis call and a note-creation request, whatever the outcomes
\* for the tickets before it.
C1_EveryTicketAnalysedAndPublished ==
    RunEnded =>
        /\ Len(modelCalls) = Len(tickets)
        /\ Len(noteRequests) = Len(tickets)
        /\ \A k \in 1..Len(tickets) :
              /\ modelCalls[k].ticket = tickets[k]
              /\ noteRequests[k].ticket_id = tickets[k]["Ticket ID"]

\* C2: whatever the external calls answer and whatever records the query
\* returns, no exception escapes processTickets: a run never ends crashed.
C2_NoExceptionEscapes ==
    entry = "main" => (pc # "crashed" /\ exc = "none")

\* scenario A: one well-formed ticket with one note, every call succeeding
ScenarioA ==
    /\ RunEnded
    /\ query.kind = "response" /\ query.status = 200 /\ query.json = "list"
    /\ query.items = <<RawTicket(1, "full")>>
    /\ Len(notesLog) = 1
    /\ notesLog[1].answer.kind = "response"
    /\ notesLog[1].answer.status = 200
    /\ notesLog[1].answer.json = "list"
    /\ notesLog[1].answer.items = <<RawNote(1, "text")>>
    /\ \A k \in 1..Len(modelCalls) : modelCalls[k].answer.kind = "content"
    /\ \A k \in 1..Len(noteRequests) : Created(noteRequests[k].answer)

\* C3: in scenario A the run calls the model service once and issues exactly
\* one note-creation request, for that ticket, flagged internal, whose text
\* is the stripped content of the model's first choice.
C3_ScenarioAPostsOneNote ==
    ScenarioA =>
        /\ Len(modelCalls) = 1
        /\ Len(noteRequests) = 1
        /\ noteRequests[1].ticket_id = "t1"
        /\ noteRequests[1].payload.internalAnalysisFlag = TRUE
        /\ noteRequests[1].payload.text = Strip(modelCalls[1].answer.content)

\* C4: when a run has ended, every ticket whose model-service call failed has
\* a note-creation request whose text is the GPT failure sentinel.
C4_FailedAnalysisIsPublished ==
    RunEnded =>
        \A k \in 1..Len(modelCalls) :
            modelCalls[k].answer.kind = "error" =>
                \E r \in 1..Len(noteRequests) :
                    /\ noteRequests[r].ticket_id = IdOf(modelCalls[k].ticket)
                    /\ noteRequests[r].payload.text = GptErrorSentinel

\* scenario B: the ticket query succeeded and returned no ticket
ScenarioB == entry = "main" /\ QueryGaveList /\ query.items = <<>>

\* C5: when the ticket query succeeds and returns zero tickets, the run makes
\* no notes read, no model-service call and no note-creation request, and
\* processTickets goes straight to its normal end.
C5_NoTicketsNoCalls ==
    ScenarioB =>
        /\ notesLog = <<>>
        /\ modelCalls = <<>>
        /\ noteRequests = <<>>
        /\ exc = "none"
        /\ pc \in {"fetch_loop", "loop", "completed"}

C5_Witness == ScenarioB /\ pc = "completed" /\ query.status = 200

\* C6: when the ticket query fails at transport level or is answered with
\* any status other than 200, fetchNewTickets returns the empty list and no
\* ticket is analysed or published in that run.
C6_FailedQueryGivesNothing ==
    (FetchReturned /\ (query.kind = "transport" \/ query.status # 200)) =>
        /\ tickets = <<>>
        /\ modelCalls = <<>>
        /\ noteRequests = <<>>

\* the notes read failed: transport failure or a status other than 200
NotesReadFailed(a) == a.kind = "transport" \/ a.status # 200

\* C7: once fetchNewTickets has returned, every ticket whose notes read
\* failed is in the returned list with the placeholder as its description.
C7_FailedNotesReadGivesPlaceholder ==
    FetchReturned =>
        \A n \in 1..Len(notesLog) :
            NotesReadFailed(notesLog[n].answer) =>
                \E k \in 1..Len(tickets) :
                    /\ tickets[k]["Ticket ID"] = notesLog[n].ticket
                    /\ tickets[k]["Description"] = ErrorFetchingNotes

\* C8: every record the pipeline hands to getTriageOutput carries a
\* Description that is a non-empty string.
C8_DescriptionNeverEmpty ==
    entry = "main" =>
        \A k \in 1..Len(modelCalls) :
            /\ "Description" \in DOMAIN modelCalls[k].ticket
            /\ modelCalls[k].ticket["Description"] # <<>>

\* the record lacks its summary, its priority or its company
Malformed(t) == ~ ({"summary", "Priority", "Company"} \subseteq DOMAIN t)

\* C9: getTriageOutput called with a malformed record returns the
\* missing-data sentinel and makes no model-service call.
C9_MalformedGivesMissingDataSentinel ==
    (entry = "getTriageOutput" /\ pc = "returned" /\ Malformed(ticket)) =>
        /\ triage_output = MissingDataSentinel
        /\ modelCalls = <<>>

\* C10: every note-creation request carries internalAnalysisFlag = true and
\* resolutionFlag = false, whatever its text.
C10_NoteFlags ==
    \A r \in 1..Len(noteRequests) :
        /\ noteRequests[r].payload.internalAnalysisFlag = TRUE
        /\ noteRequests[r].payload.resolutionFlag = FALSE

C10_Witness ==
    /\ pc = "returned"
    /\ Len(noteRequests) = 1
    /\ noteRequests[1].payload.text = GptErrorSentinel
    /\ store["t1"] > 0

\* every ticket of the list carries the fields the enrichment loop reads
WellFormed(ts) == \A p \in 1..Len(ts) : {"id", "summary"} \subseteq DOMAIN ts[p]

\* the script has been run twice, and nothing else, against the same
\* non-empty list of well-formed matching tickets, and every external call
\* of both runs succeeded
TwoCleanRuns ==
    /\ runs = 2
    /\ cleanRuns = 1
    /\ CleanRun
    /\ matching # <<>>
    /\ WellFormed(matching)

\* C11: after two runs against an unchanged set of matching tickets, with
\* every external call succeeding, the ticketing system holds two notes on
\* each of those tickets, one per run.
C11_TwoRunsTwoNotes ==
    TwoCleanRuns =>
        \A p \in 1..Len(matching) : store[matching[p].id] = 2

\* the ticket of the query's answer that a record handed to getTriageOutput
\* was built from
SourcesOf(t) ==
    {p \in 1..Len(query.items) :
        /\ "id" \in DOMAIN query.items[p]
        /\ query.items[p].id = IdOf(t)}

\* C12: every ticket the run analyses satisfied, when it was fetched, the
\* whole filter: status New, board Service, no owner, and created at or after
\* the cutoff (now minus TIME_WINDOW_MINUTES).
C12_AnalysedTicketsPassTheFilter ==
    entry = "main" =>
        \A k \in 1..Len(modelCalls) :
            \A p \in SourcesOf(modelCalls[k].ticket) :
                /\ query.items[p].status = "New"
                /\ query.items[p].board = "Service"
                /\ query.items[p].owner = "null"
                /\ CreatedSinceCutoff(query.items[p])

\* C13: getTriageOutput never raises; when the model-service call fails or
\* its response has no choice or a null content, the value it returns is the
\* GPT failure sentinel.
C13_ModelFailureGivesSentinel ==
    /\ entry = "getTriageOutput" => (exc = "none" /\ pc \in {"analyze", "returned"})
    /\ modelCalls # <<>> =>
          (modelCalls[Len(modelCalls)].answer.kind # "content" =>
              triage_output = GptErrorSentinel)

C13_Witness ==
    /\ entry = "getTriageOutput"
    /\ pc = "returned"
    /\ modelCalls[1].answer.kind = "nullcontent"
    /\ triage_output = GptErrorSentinel

\* C14: postTicketNote never raises: it sends one request and returns to its
\* caller whatever the answer; when the request fails at transport level or
\* with an error status the ticket gets no note, and no second request is sent.
C14_PostNeverRaises ==
    [][pc = "post" =>
          /\ pc' \in {"loop", "returned"}
          /\ exc' = "none"
          /\ Len(noteRequests') = Len(noteRequests) + 1
          /\ (~ Created(noteRequests'[Len(noteRequests')].answer) => store' = store)
      ]_vars

C14_Witness ==
    /\ entry = "postTicketNote"
    /\ pc = "returned"
    /\ Len(noteRequests) = 1
    /\ noteRequests[1].answer.kind = "transport"
    /\ store["t1"] = 0

\* positions of the trace at which request `op` was sent for ticket `id`
At(op, id) == {n \in 1..Len(trace) : trace[n].op = op /\ trace[n].ticket = id}

\* C15: a run handles the fetched tickets one at a time in the order of the
\* response: for consecutive tickets k and k+1 the analysis call and the
\* note-creation request for ticket k both precede the analysis call for
\* ticket k+1, and note-creation requests follow the response order.
C15_TicketsHandledInResponseOrder ==
    RunEnded =>
        \A k \in 1..(Len(tickets) - 1) :
            LET this == tickets[k]["Ticket ID"]
                next == tickets[k + 1]["Ticket ID"]
            IN /\ \E a \in At("model", this), b \in At("post", this),
                     c \in At("model", next) : a < b /\ b < c
               /\ \E b \in At("post", this), d \in At("post", next) : b < d

\* C16: nothing is retried: in a run the ticket query is sent exactly once,
\* and for each fetched ticket the notes read (when the ticket has a notes
\* link), the model call and the note-creation request are each sent exactly
\* once, whatever their outcome.
C16_EachCallExactlyOnce ==
    RunEnded =>
        /\ queries = 1
        /\ \A k \in 1..Len(tickets) :
              LET id == tickets[k]["Ticket ID"] IN
              /\ Cardinality(At("model", id)) = 1
              /\ Cardinality(At("post", id)) = 1
              /\ NotesUrl(query.items[k]) # "" => Cardinality(At("notes", id)) = 1

\* text `sub` occurs in text `s`
Contains(s, sub) ==
    \E a \in 0..(Len(s) - Len(sub)) : SubSeq(s, a + 1, a + Len(sub)) = sub

\* the notes reads of this call that were sent for ticket `id`
NotesReadsOf(id) == {n \in 1..Len(notesLog) : notesLog[n].ticket = id}

\* the notes read succeeded with a list of notes
NotesReadOk(a) == a.kind = "response" /\ a.status = 200 /\ a.json = "list"

\* C17: for every fetched ticket that has a description and whose notes read
\* succeeds with at least one note, the Description handed on contains the ticket's own description
\* text and the text of each of its notes.
C17_DescriptionMergesTicketAndNotes ==
    (FetchReturned /\ fetchExit = "ok") =>
        \A k \in 1..Len(tickets) :
            \A n \in NotesReadsOf(tickets[k]["Ticket ID"]) :
                ("description" \in DOMAIN query.items[k]
                    /\ NotesReadOk(notesLog[n].answer)
                    /\ notesLog[n].answer.items # <<>>) =>
                    /\ Contains(tickets[k]["Description"], query.items[k].description)
                    /\ \A q \in 1..Len(notesLog[n].answer.items) :
                          Contains(tickets[k]["Description"],
                                   notesLog[n].answer.items[q].text)

\* C18: the prompt sent for a ticket the fetch stage handed over carries that
\* ticket's summary as Title, its identifier as Ticket ID and its aggregated
\* description as Issue, 'Not provided' standing in for an empty description.
C18_PromptCarriesTicketData ==
    entry = "main" =>
        \A k \in 1..Len(modelCalls) :
            LET t == modelCalls[k].ticket
                prompt == modelCalls[k].prompt
            IN /\ prompt.Title = t["Summary"]
               /\ prompt.TicketID = t["Ticket ID"]
               /\ prompt.Issue = IF t["Description"] = <<>>
                                    THEN <<"Not provided">>
                                    ELSE t["Description"]

\* the pieces of a text between its single spaces, as str.split(" ") gives
RECURSIVE SplitOnSpace(_)
SplitOnSpace(s) ==
    IF \A n \in 1..Len(s) : s[n] # WS THEN <<s>>
    ELSE LET j == CHOOSE n \in 1..Len(s) :
                      s[n] = WS /\ \A m \in 1..(n - 1) : s[m] # WS
         IN <<SubSeq(s, 1, j - 1)>> \o SplitOnSpace(SubSeq(s, j + 1, Len(s)))

C20_FetchIsAllOrNothing ==
    FetchReturned =>
        /\ fetchExit # "ok" => tickets = <<>>
        /\ \/ tickets = <<>>
           \/ /\ Len(tickets) = Len(query.items)
              /\ \A k \in 1..Len(tickets) :
                    /\ tickets[k]["Ticket ID"] = query.items[k].id
                    /\ tickets[k]["Summary"] = query.items[k].summary

C20_Witness ==
    /\ FetchReturned
    /\ fetchExit = "Exception"
    /\ Len(tickets_with_notes) = 1
    /\ tickets = <<>>
====
